---------------------------- MODULE Spec2Model ----------------------------
(***************************************************************************)
(* Token issuance (Payload.createToken) and the verification middleware    *)
(* (CheckHeaders.validateJWT) of proyecto-backend_node-plantilla, with the *)
(* errors they hand to Sentry.captureException and to the console log.     *)
(*                                                                         *)
(* The repository holds two versions of each class: the documented ones    *)
(* (unnamed/part_003, unnamed/part_005), called "v2" below, and the short   *)
(* ones (src/helpers/payload.ts, src/middlewares/headers.ts), called "v1". *)
(*                                                                         *)
(* JavaScript strings are sequences of character codes; an issued token is *)
(* a record (algorithm, claims, iat, exp, signature); a ciphertext is the  *)
(* pair (secret, plaintext) that only the same secret opens.               *)
(*                                                                         *)
(* Three further parts of the repository have a state machine of their     *)
(* own: SentryLogs.scope (SpecLogs), FileManager.upload (SpecFiles) and    *)
(* the start-up of the server (SpecServer).  Each specification moves its  *)
(* own variable and leaves the others where they start.                    *)
(***************************************************************************)
EXTENDS Integers, Sequences, FiniteSets, TLC

(***************************************************************************)
(* Bounds of the model.                                                    *)
(***************************************************************************)
\* the clock runs over 0..MaxNow (seconds)
MaxNow == 1
\* the largest numeric identifier handed to createToken
MaxUserId == 42

\* the most headers one request of the SentryLogs model carries
MaxHeaders == 2

(***************************************************************************)
(* JavaScript values: undefined, numbers (integers and NaN) and strings.   *)
(***************************************************************************)
Undef == [t |-> "undef", n |-> 0, s |-> <<>>]
NaN == [t |-> "nan", n |-> 0, s |-> <<>>]
Num(k) == [t |-> "num", n |-> k, s |-> <<>>]
Str(cs) == [t |-> "str", n |-> 0, s |-> cs]

IsDigit(c) == c >= 48 /\ c <= 57

RECURSIVE Digits(_)
\* decimal digits of a natural number, most significant first
Digits(k) == IF k < 10 THEN <<48 + k>> ELSE Digits(k \div 10) \o <<48 + (k % 10)>>

\* String(v) of part_003:491,496
JSString(v) ==
    CASE v.t = "str" -> v.s
      [] v.t = "num" -> IF v.n < 0 THEN <<45>> \o Digits(0 - v.n) ELSE Digits(v.n)
      [] v.t = "nan" -> <<78, 97, 78>>
      [] OTHER -> <<117, 110, 100, 101, 102, 105, 110, 101, 100>>

RECURSIVE TrimLeft(_)
TrimLeft(cs) == IF cs # <<>> /\ Head(cs) = 32 THEN TrimLeft(Tail(cs)) ELSE cs

RECURSIVE TrimRight(_)
TrimRight(cs) ==
    IF cs # <<>> /\ cs[Len(cs)] = 32 THEN TrimRight(SubSeq(cs, 1, Len(cs) - 1)) ELSE cs

RECURSIVE DigitsValue(_)
\* value of a non-empty sequence of decimal digits
DigitsValue(cs) ==
    IF Len(cs) = 1 THEN cs[1] - 48
    ELSE 10 * DigitsValue(SubSeq(cs, 1, Len(cs) - 1)) + (cs[Len(cs)] - 48)

AllDigits(cs) == cs # <<>> /\ \A i \in 1..Len(cs) : IsDigit(cs[i])

\* the unary plus of part_005:235 and headers.ts:38 applied to a string:
\* surrounding blanks are dropped, the empty string is 0, an optionally
\* signed decimal numeral is its value, anything else is NaN
ToNumber(cs) ==
    LET body == TrimRight(TrimLeft(cs))
        signed == body # <<>> /\ (Head(body) = 45 \/ Head(body) = 43)
        mag == IF signed THEN Tail(body) ELSE body
    IN  IF body = <<>> THEN Num(0)
        ELSE IF ~AllDigits(mag) THEN NaN
        ELSE IF signed /\ Head(body) = 45 THEN Num(0 - DigitsValue(mag))
        ELSE Num(DigitsValue(mag))

(***************************************************************************)
(* The claim cipher (Cryptr): new Cryptr(secret), encrypt, decrypt.        *)
(* A ciphertext names the secret that made it, the plaintext it hides and   *)
(* the initialisation vector the library drew for it. key = "" is a value  *)
(* that anybody reads: a claim left in the clear.                          *)
(***************************************************************************)
NoCipher == [key |-> "", plain |-> <<>>, iv |-> 0]

\* the initialisation vectors cipher.encrypt can draw: a library that salts
\* draws a fresh one per call, one that does not always uses the same
IvValues == {0, 1}

\* new Cryptr(secret) throws for an undefined or empty secret
CryptrNew(secret) ==
    IF secret = "" THEN [ok |-> FALSE, err |-> "Error: Cryptr: secret must be a non-0-length string"]
    ELSE [ok |-> TRUE, err |-> ""]

\* an encrypt that hands the plaintext back readable
CryptrEncryptClear(secret, plain, iv) == [key |-> "", plain |-> plain, iv |-> iv]

\* cryptr.encrypt(plain) of an instance made with `secret`, drawing `iv`
CryptrEncrypt(secret, plain, iv) == [key |-> secret, plain |-> plain, iv |-> iv]

\* a decrypt that opens a ciphertext whatever secret made it
CryptrDecryptAnyKey(secret, c) == [ok |-> TRUE, plain |-> c.plain, err |-> ""]

\* cryptr.decrypt(c) of an instance made with `secret`: the authenticated
\* cipher rejects a ciphertext made under another secret
CryptrDecrypt(secret, c) ==
    IF c.key = secret /\ secret # ""
    THEN [ok |-> TRUE, plain |-> c.plain, err |-> ""]
    ELSE [ok |-> FALSE, plain |-> <<>>,
          err |-> "Error: Unsupported state or unable to authenticate data"]

(***************************************************************************)
(* Key material and the file system.                                       *)
(***************************************************************************)
DevPrivatePath == "./src/keys/private.pem"
DevPublicPath == "./src/keys/public.pem"
ProdPrivatePath == "/run/keys/private.pem"
ProdPublicPath == "/run/keys/public.pem"

\* the public half of a private key
PublicOf(priv) ==
    CASE priv = "PRIV_A" -> "PUB_A"
      [] priv = "PRIV_X" -> "PUB_X"
      [] OTHER -> ""

\* fs.readFileSync(path, 'utf8'); path = "" is an undefined path
ReadFileSync(files, path) ==
    IF path = "" THEN
        [ok |-> FALSE, data |-> "", path |-> path,
         err |-> "TypeError [ERR_INVALID_ARG_TYPE]: The \"path\" argument must be of type string"]
    ELSE IF path \notin DOMAIN files \/ files[path] = "" THEN
        [ok |-> FALSE, data |-> "", path |-> path,
         err |-> "Error: ENOENT: no such file or directory, open " \o path]
    ELSE [ok |-> TRUE, data |-> files[path], path |-> path, err |-> ""]

(***************************************************************************)
(* jsonwebtoken: sign and verify.                                          *)
(***************************************************************************)
NoToken ==
    [alg |-> "", has_user_id |-> FALSE, user_id |-> NoCipher,
     has_client_id |-> FALSE, client_id |-> NoCipher,
     iat |-> 0, exp |-> 0, signer |-> "", intact |-> FALSE]

\* the defaults of createToken (part_003:469-470; payload.ts:29)
DefaultExpiresIn == "9h"
DefaultAlgorithm == "RS256"

\* the `ms` timespan strings the model hands to jwt.sign, in seconds
Timespan(expiresIn) ==
    CASE expiresIn = "9h" -> [ok |-> TRUE, secs |-> 32400]
      [] expiresIn = "1s" -> [ok |-> TRUE, secs |-> 1]
      [] expiresIn = "-1s" -> [ok |-> TRUE, secs |-> 0 - 1]
      [] OTHER -> [ok |-> FALSE, secs |-> 0]

RsaAlgorithms == {"RS256", "RS384", "RS512"}

\* an issued-at claim that ignores the clock
IssuedAtFrozen(clock) == 0

\* the issued-at claim jwt.sign adds: the clock in whole seconds
IssuedAt(clock) == clock

\* jwt.sign(payload, key, {algorithm, expiresIn}) at time `clock`
JwtSign(payload, key, algorithm, expiresIn, clock) ==
    LET span == Timespan(expiresIn)
    IN  IF key = "" THEN
            [ok |-> FALSE, token |-> NoToken, err |-> "secretOrPrivateKey must have a value"]
        ELSE IF algorithm \notin RsaAlgorithms \/ PublicOf(key) = "" THEN
            [ok |-> FALSE, token |-> NoToken,
             err |-> "secretOrPrivateKey must be an asymmetric key when using " \o algorithm]
        ELSE IF ~span.ok THEN
            [ok |-> FALSE, token |-> NoToken,
             err |-> "\"expiresIn\" should be a number of seconds or string representing a timespan"]
        ELSE
            [ok |-> TRUE, err |-> "",
             token |-> [alg |-> algorithm,
                        has_user_id |-> payload.has_user_id, user_id |-> payload.user_id,
                        has_client_id |-> payload.has_client_id, client_id |-> payload.client_id,
                        iat |-> IssuedAt(clock), exp |-> IssuedAt(clock) + span.secs,
                        signer |-> key, intact |-> TRUE]]


\* the expiration test of jwt.verify: clockTimestamp >= payload.exp
ExpiredLate(clock, exp) == clock > exp
Expired(clock, exp) == clock >= exp

\* a verify that only decodes: whatever parses as a token is accepted
JwtVerifyDecodeOnly(cred, key, clock) ==
    IF ~cred.present \/ cred.tok.alg = "" \/ cred.chars # <<>>
    THEN [ok |-> FALSE, payload |-> NoToken, err |-> "JsonWebTokenError: jwt malformed"]
    ELSE [ok |-> TRUE, payload |-> cred.tok, err |-> ""]

\* jwt.verify(credential, key) at time `clock`; the credential is the string
\* chars ++ token (tok.alg = "" when it holds no token)
JwtVerify(cred, key, clock) ==
    LET fail(text) == [ok |-> FALSE, payload |-> NoToken, err |-> text]
        t == cred.tok
    IN  IF ~cred.present \/ (cred.chars = <<>> /\ t.alg = "") THEN
            fail("JsonWebTokenError: jwt must be provided")
        ELSE IF t.alg = "" THEN fail("JsonWebTokenError: jwt malformed")
        ELSE IF cred.chars # <<>> THEN fail("JsonWebTokenError: invalid token")
        ELSE IF t.alg \notin RsaAlgorithms THEN fail("JsonWebTokenError: invalid algorithm")
        ELSE IF ~t.intact \/ PublicOf(t.signer) # key THEN
            fail("JsonWebTokenError: invalid signature")
        ELSE IF Expired(clock, t.exp) THEN fail("TokenExpiredError: jwt expired")
        ELSE [ok |-> TRUE, payload |-> t, err |-> ""]

(***************************************************************************)
(* Deployments: the environment variables and key files of one process.    *)
(***************************************************************************)
KeyFiles(devPriv, devPub, prodPriv, prodPub) ==
    (DevPrivatePath :> devPriv) @@ (DevPublicPath :> devPub)
    @@ (ProdPrivatePath :> prodPriv) @@ (ProdPublicPath :> prodPub)

Deployment(mode, priv, pub, secret, fs) ==
    [env |-> [MODE |-> mode, PRIVATE_KEY |-> priv, PUBLIC_KEY |-> pub, CRYPTR_KEY |-> secret],
     files |-> fs]

GoodFiles == KeyFiles("PRIV_A", "PUB_A", "PRIV_A", "PUB_A")

Deployments ==
    { Deployment("dev", "", "", "s1", GoodFiles),
      Deployment("prod", ProdPrivatePath, ProdPublicPath, "s1", GoodFiles),
      Deployment("", ProdPrivatePath, ProdPublicPath, "s1", GoodFiles),
      Deployment("prod", ProdPrivatePath, ProdPublicPath, "s2", GoodFiles),
      Deployment("prod", ProdPrivatePath, ProdPublicPath, "", GoodFiles),
      Deployment("prod", "", ProdPublicPath, "s1", GoodFiles),
      Deployment("prod", ProdPrivatePath, "", "s1", GoodFiles),
      Deployment("prod", ProdPrivatePath, ProdPublicPath, "s1",
                 KeyFiles("PRIV_A", "PUB_A", "", "PUB_A")),
      Deployment("prod", ProdPrivatePath, ProdPublicPath, "s1",
                 KeyFiles("PRIV_A", "PUB_A", "PRIV_A", "PUB_X")) }

\* the static initializer of CheckHeaders.publicKey (v2), run when the class loads
LoadPublicKey(e, fs) ==
    LET path == IF e.MODE # "dev" THEN e.PUBLIC_KEY ELSE DevPublicPath
    IN  IF path = "" THEN
            [ok |-> FALSE, data |-> "", path |-> path,
             err |-> "Error: PUBLIC_KEY no definida en variables de entorno"]
        ELSE ReadFileSync(fs, path)

VARIABLES
    env,        \* process.env of the running process
    files,      \* the key files on disk
    publicKey,  \* CheckHeaders.publicKey (v2): the outcome of its static initializer
    now,        \* the clock, in seconds
    held,       \* the token the client holds: the last one createToken returned
    issue,      \* the last createToken call: its arguments and what it did
    resp,       \* the last validateJWT request: its inputs and what it did
    sentry,     \* SentryLogs: its switch and the last scope call
    storage,    \* the S3 bucket and the last FileManager.upload call
    server      \* the process on its way from start to listening

\* the variables of token issuance and verification, and the others
tokens == <<env, files, publicKey, now, held, issue, resp>>

others == <<sentry, storage, server>>

vars == <<tokens, others>>


(***************************************************************************)
(* Payload (v2, unnamed/part_003; v1, src/helpers/payload.ts).             *)
(***************************************************************************)
\* the `data` argument: undefined/null, or an object with the fields it has
NoData ==
    [isObject |-> FALSE, has_user_id |-> FALSE, user_id |-> Undef,
     has_client_id |-> FALSE, client_id |-> Undef]
EmptyData == [NoData EXCEPT !.isObject = TRUE]
UserData(v) == [EmptyData EXCEPT !.has_user_id = TRUE, !.user_id = v]
ClientData(v) == [EmptyData EXCEPT !.has_client_id = TRUE, !.client_id = v]
\* an object that carries both fields
BothData(u, c) ==
    [isObject |-> TRUE, has_user_id |-> TRUE, user_id |-> u,
     has_client_id |-> TRUE, client_id |-> c]

\* the claim a token kind carries
SubjectPresent(data, type_token) ==
    IF type_token = "user" THEN data.has_user_id ELSE data.has_client_id
SubjectOf(data, type_token) ==
    IF type_token = "user" THEN data.user_id ELSE data.client_id
SubjectField(type_token) == IF type_token = "user" THEN "user_id" ELSE "client_id"

\* the two messages of validatePayload
MissingFieldMessage(field) == "Falta o es invalido el campo obligatorio: " \o field
\* the TypeError of `field in data` when data is not an object
InOperatorMessage(field) ==
    "Cannot use 'in' operator to search for '" \o field \o "' in undefined"

\* validatePayload without its test for the empty string
validatePayloadLax(data, type_token) ==
    IF ~data.isObject THEN
        [threw |-> TRUE, ok |-> FALSE, error |-> InOperatorMessage(SubjectField(type_token))]
    ELSE IF ~SubjectPresent(data, type_token) \/ SubjectOf(data, type_token) = Undef THEN
        [threw |-> FALSE, ok |-> FALSE, error |-> MissingFieldMessage(SubjectField(type_token))]
    ELSE [threw |-> FALSE, ok |-> TRUE, error |-> ""]

\* Payload.validatePayload; `threw` when data is not an object (the `in` operator)
validatePayload(data, type_token) ==
    IF ~data.isObject THEN
        [threw |-> TRUE, ok |-> FALSE, error |-> InOperatorMessage(SubjectField(type_token))]
    ELSE IF ~SubjectPresent(data, type_token)
            \/ SubjectOf(data, type_token) = Undef
            \/ SubjectOf(data, type_token) = Str(<<>>) THEN
        [threw |-> FALSE, ok |-> FALSE, error |-> MissingFieldMessage(SubjectField(type_token))]
    ELSE [threw |-> FALSE, ok |-> TRUE, error |-> ""]

\* getPrivateKey reading process.env.PRIVATE_KEY whatever MODE says
getPrivateKeyFromEnv(e, fs) ==
    LET r == ReadFileSync(fs, e.PRIVATE_KEY)
    IN  IF r.ok THEN [ok |-> TRUE, key |-> r.data, err |-> "", caught |-> "", path |-> r.path]
        ELSE [ok |-> FALSE, key |-> "", err |-> "No se pudo leer la clave privada.",
              caught |-> r.err, path |-> r.path]

\* Payload.getPrivateKey: reads the key file on every call; a failed read is
\* caught (`caught`, handed to handleError) and rethrown with a fixed message
getPrivateKey(e, fs) ==
    LET r == ReadFileSync(fs, IF e.MODE # "dev" THEN e.PRIVATE_KEY ELSE DevPrivatePath)
    IN  IF r.ok THEN [ok |-> TRUE, key |-> r.data, err |-> "", caught |-> "", path |-> r.path]
        ELSE [ok |-> FALSE, key |-> "", err |-> "No se pudo leer la clave privada.",
              caught |-> r.err, path |-> r.path]

\* what a createToken call did, before any step
IssueStart ==
    [ok |-> FALSE, token |-> NoToken, hasError |-> FALSE, error |-> "",
     steps |-> <<>>, captured |-> <<>>, logged |-> <<>>, threw |-> FALSE,
     keyReads |-> 0, keyPath |-> ""]

\* Payload.handleError: Sentry.captureException(error), then a console.log
\* line carrying the time and the error
handleError(o, error, clock) ==
    [o EXCEPT !.captured = @ \o <<error>>,
              !.logged = @ \o <<[at |-> clock, text |-> error]>>]

\* the return of part_003:476 with a report to handleError put before it
IssueRejectedReported(o, message, clock) ==
    [handleError(o, message, clock) EXCEPT !.hasError = TRUE, !.error = message]

\* part_003:475-477: return {ok: false, error: validation.error}
IssueRejected(o, message, clock) == [o EXCEPT !.hasError = TRUE, !.error = message]

\* the catch block of createToken: handleError(e), then {ok:false, error: e.message}
IssueCaught(o, message, clock) ==
    [handleError(o, message, clock) EXCEPT
        !.hasError = TRUE,
        !.error = IF message = "" THEN "Error al generar el token." ELSE message]

\* the payload of part_003:486-497 with both claims set
BuildPayloadBoth(type_token, cipher) ==
    [has_user_id |-> TRUE, user_id |-> cipher, has_client_id |-> TRUE, client_id |-> cipher]

\* part_003:486-497: the payload handed to jwt.sign
BuildPayload(type_token, cipher) ==
    IF type_token = "user"
    THEN [has_user_id |-> TRUE, user_id |-> cipher,
          has_client_id |-> FALSE, client_id |-> NoCipher]
    ELSE [has_user_id |-> FALSE, user_id |-> NoCipher,
          has_client_id |-> TRUE, client_id |-> cipher]

\* Payload.createToken(data, type_token, expiresIn, algorithm) of part_003,
\* in environment e with key files fs at time clock, the cipher drawing iv
createToken(data, type_token, expiresIn, algorithm, e, fs, clock, iv) ==
    LET v == validatePayload(data, type_token)
        o1 == [IssueStart EXCEPT !.steps = <<"validate">>]
    IN  IF v.threw THEN IssueCaught(o1, v.error, clock)
        ELSE IF ~v.ok THEN IssueRejected(o1, v.error, clock)
        ELSE
        LET k == getPrivateKey(e, fs)
            o2 == [o1 EXCEPT !.steps = @ \o <<"getPrivateKey">>, !.keyReads = 1,
                             !.keyPath = k.path]
        IN  IF ~k.ok THEN IssueCaught(handleError(o2, k.caught, clock), k.err, clock)
            ELSE
            LET c == CryptrNew(e.CRYPTR_KEY)
                o3 == [o2 EXCEPT !.steps = @ \o <<"newCryptr">>]
            IN  IF ~c.ok THEN
                    IssueCaught(o3, "Cryptr: secret must be a non-0-length string", clock)
                ELSE
                LET cipher == CryptrEncrypt(e.CRYPTR_KEY,
                                            JSString(SubjectOf(data, type_token)), iv)
                    s == JwtSign(BuildPayload(type_token, cipher), k.key, algorithm,
                                 expiresIn, clock)
                    o4 == [o3 EXCEPT !.steps = @ \o <<"encrypt", "sign">>]
                IN  IF ~s.ok THEN IssueCaught(o4, s.err, clock)
                    ELSE [o4 EXCEPT !.ok = TRUE, !.token = s.token]

\* the catch block of payload.ts:33-37: captureException, console.log with
\* the time, and {ok: false} without an error field
IssueCaught_v1(o, message, clock) == handleError(o, message, clock)

\* Payload.createToken(data) of src/helpers/payload.ts:18-38
createToken_v1(data, e, fs, clock, iv) ==
    LET k == ReadFileSync(fs, IF e.MODE # "dev" THEN e.PRIVATE_KEY ELSE DevPrivatePath)
        o1 == [IssueStart EXCEPT !.steps = <<"readPrivateKey">>, !.keyReads = 1,
                                 !.keyPath = k.path]
    IN  IF ~k.ok THEN IssueCaught_v1(o1, k.err, clock)
        ELSE
        LET c == CryptrNew(e.CRYPTR_KEY)
            o2 == [o1 EXCEPT !.steps = @ \o <<"newCryptr">>]
        IN  IF ~c.ok THEN IssueCaught_v1(o2, c.err, clock)
            ELSE IF ~data.isObject THEN
                IssueCaught_v1(o2, "TypeError: Cannot read properties of undefined (reading 'user_id')",
                               clock)
            ELSE
            LET o3 == [o2 EXCEPT !.steps = @ \o <<"encrypt">>]
            IN  IF ~data.has_user_id \/ data.user_id = Undef THEN
                    IssueCaught_v1(o3, "Error: value must not be null or undefined", clock)
                ELSE
                LET cipher == CryptrEncrypt(e.CRYPTR_KEY, JSString(data.user_id), iv)
                    s == JwtSign(BuildPayload("user", cipher), k.data, DefaultAlgorithm,
                                 DefaultExpiresIn, clock)
                    o4 == [o3 EXCEPT !.steps = @ \o <<"sign">>]
                IN  IF ~s.ok THEN IssueCaught_v1(o4, s.err, clock)
                    ELSE [o4 EXCEPT !.ok = TRUE, !.token = s.token]


(***************************************************************************)
(* CheckHeaders.validateJWT: requests and responses.                       *)
(***************************************************************************)
\* "Bearer " and other header prefixes, as character codes
BearerPrefix == <<66, 101, 97, 114, 101, 114, 32>>
LowerBearerPrefix == <<98, 101, 97, 114, 101, 114, 32>>
BearerNoSpace == <<66, 101, 97, 114, 101, 114>>
Garbage == <<120>>

\* authHeader.startsWith(prefix): a token's own characters (base64url and
\* dots) never complete a prefix that ends in a blank
StartsWith(h, prefix) ==
    Len(h.chars) >= Len(prefix) /\ SubSeq(h.chars, 1, Len(prefix)) = prefix

\* authHeader.slice(k)
Slice(h, k) == [h EXCEPT !.chars = SubSeq(h.chars, k + 1, Len(h.chars))]

\* req.get('authorization') || req.get('Authorization') is falsy
HeaderFalsy(h) == ~h.present \/ (h.chars = <<>> /\ h.tok.alg = "")

\* part_005:208
ExtractToken(h) == IF StartsWith(h, BearerPrefix) THEN Slice(h, 7) ELSE h

\* what a validateJWT call did, before any step. Neither version of the
\* middleware imports Sentry or writes a log line: `captured` and `logged`
\* stay as they start. `thisErr` is the TypeError of reading this.publicKey.
RespStart(req) ==
    [status |-> 0, message |-> "", detail |-> "", writes |-> 0, nextCalls |-> 0,
     userId |-> Undef, bodyAfter |-> req.body, steps |-> <<>>, threw |-> "",
     cred |-> req.header, verified |-> FALSE, verifyErr |-> "", decryptErr |-> "",
     thisErr |-> "", captured |-> <<>>, logged |-> <<>>]

\* res.status(code).json({ok: false, errors: [{message: message + detail}]})
Respond(o, code, message, detail) ==
    [o EXCEPT !.status = code, !.message = message, !.detail = detail,
              !.writes = @ + 1, !.steps = @ \o <<"respond">>]

\* !decoded.user_id: the verified payload carries no user_id claim
ClaimMissingNever(payload) == FALSE
ClaimMissing(payload) == ~payload.has_user_id \/ payload.user_id = NoCipher

\* the catch block of part_005:239-245
RejectGeneric(o) == Respond(o, 403, "Token invalido o expirado.", "")

\* CheckHeaders.validateJWT (v2, unnamed/part_005:197-246)
validateJWT(req, e, pk, clock) ==
    LET o0 == [RespStart(req) EXCEPT !.steps = <<"extract">>]
        cred == ExtractToken(req.header)
        o1 == [o0 EXCEPT !.cred = cred, !.steps = @ \o <<"precheck">>]
    IN  IF HeaderFalsy(req.header) THEN
            Respond(o0, 401, "No se encontro el token de autenticacion en la cabecera.", "")
        ELSE IF e.CRYPTR_KEY = "" THEN
            Respond(o1, 500, "Configuracion de servidor incompleta.", "")
        ELSE IF req.receiver = "undefined" THEN
            \* this.publicKey with `this` undefined throws a TypeError
            RejectGeneric([o1 EXCEPT !.thisErr =
                "TypeError: Cannot read properties of undefined (reading 'publicKey')"])
        ELSE
        LET v == JwtVerify(cred, pk, clock)
            o2 == [o1 EXCEPT !.steps = @ \o <<"verify">>]
            ov == [o2 EXCEPT !.verified = TRUE, !.steps = @ \o <<"claimCheck">>]
        IN  IF ~v.ok THEN RejectGeneric([o2 EXCEPT !.verifyErr = v.err])
            ELSE IF ClaimMissing(v.payload) THEN
                Respond(ov, 403, "El token no contiene el parametro general del usuario.", "")
            ELSE
            LET d == CryptrDecrypt(e.CRYPTR_KEY, v.payload.user_id)
                o3 == [ov EXCEPT !.steps = @ \o <<"decrypt">>]
            IN  IF ~d.ok THEN RejectGeneric([o3 EXCEPT !.decryptErr = d.err])
                ELSE
                LET o4 == [o3 EXCEPT !.userId = ToNumber(d.plain), !.nextCalls = 1,
                                     !.steps = @ \o <<"attach", "next">>]
                IN  IF req.nextThrows THEN RejectGeneric(o4) ELSE o4

\* CheckHeaders.validateJWT (v1, src/middlewares/headers.ts:19-47)
validateJWT_v1(req, e, fs, clock) ==
    LET o0 == [RespStart(req) EXCEPT !.steps = <<"extract", "readPublicKey">>]
        k == ReadFileSync(fs, IF e.MODE # "dev" THEN e.PUBLIC_KEY ELSE DevPublicPath)
        c == CryptrNew(e.CRYPTR_KEY)
        reject(o, err) ==
            Respond(o, 403, "Existe el siguiente problema con la cabecera: ", err)
    IN  IF ~k.ok THEN [o0 EXCEPT !.threw = k.err]
        ELSE IF ~c.ok THEN [o0 EXCEPT !.threw = c.err]
        ELSE
        LET v == JwtVerify(req.header, k.data, clock)
            o2 == [o0 EXCEPT !.steps = @ \o <<"verify">>]
            ov == [o2 EXCEPT !.verified = TRUE, !.steps = @ \o <<"claimCheck">>]
        IN  IF ~v.ok THEN reject([o2 EXCEPT !.verifyErr = v.err], v.err)
            ELSE IF ClaimMissing(v.payload) THEN
                Respond(ov, 403, "You do not have the required authentication", "")
            ELSE
            LET d == CryptrDecrypt(e.CRYPTR_KEY, v.payload.user_id)
                o3 == [ov EXCEPT !.steps = @ \o <<"decrypt">>]
            IN  IF ~d.ok THEN reject([o3 EXCEPT !.decryptErr = d.err], d.err)
                ELSE
                LET o4 == [o3 EXCEPT
                             !.bodyAfter = [has_user_id |-> TRUE, user_id |-> ToNumber(d.plain)],
                             !.nextCalls = 1, !.steps = @ \o <<"attach", "next">>]
                IN  IF req.nextThrows THEN [o4 EXCEPT !.threw = "Error: downstream"] ELSE o4


(***************************************************************************)
(* Inputs of the operations.                                               *)
(***************************************************************************)
\* subject identifiers: a number, a numeric string, a non-numeric string,
\* the empty string and undefined
IdValues == {Num(MaxUserId), Str(<<55>>), Str(<<97, 98, 99>>), Str(<<>>), Undef}

DataValues ==
    {NoData, EmptyData, BothData(Num(MaxUserId), Str(<<97, 98, 99>>))}
    \cup {UserData(v) : v \in IdValues} \cup {ClientData(v) : v \in IdValues}

TokenTypes == {"user", "client"}
ExpiresInValues == {DefaultExpiresIn, "1s", "-1s", "soon"}
AlgorithmValues == {DefaultAlgorithm, "ES256"}

\* what an attacker makes of a token: a changed payload under the old
\* signature, a signature by another key, an HMAC token keyed with the public key
Tampered(t) == [t EXCEPT !.intact = FALSE]
Resigned(t) == [t EXCEPT !.signer = "PRIV_X"]
HmacForged(t) == [t EXCEPT !.alg = "HS256"]

NoHeader == [present |-> FALSE, chars |-> <<>>, tok |-> NoToken]
Header(chars, tok) == [present |-> TRUE, chars |-> chars, tok |-> tok]

\* the Authorization headers a client holding token t can send
HeaderValues(t) ==
    {NoHeader, Header(<<>>, NoToken), Header(Garbage, NoToken),
     Header(BearerPrefix, NoToken), Header(BearerPrefix \o Garbage, NoToken)}
    \cup (IF t.alg = "" THEN {}
          ELSE {Header(p, t) : p \in {<<>>, BearerPrefix, LowerBearerPrefix, BearerNoSpace}}
               \cup {Header(p, u) : p \in {<<>>, BearerPrefix},
                                    u \in {Tampered(t), Resigned(t), HmacForged(t)}})

\* req.body as the client sent it: without user_id, or with one of its choosing
EmptyBody == [has_user_id |-> FALSE, user_id |-> Undef]
SpoofedBody == [has_user_id |-> TRUE, user_id |-> Num(999)]
BodyValues == {EmptyBody, SpoofedBody}

\* how the middleware is invoked: Express calls a pipeline step as a plain
\* function (`this` undefined); CheckHeaders.validateJWT(...) binds the class.
\* v1 never reads `this`.
Callers ==
    {[impl |-> "v2", receiver |-> "undefined"], [impl |-> "v2", receiver |-> "CheckHeaders"],
     [impl |-> "v1", receiver |-> "undefined"]}

(***************************************************************************)
(* SentryLogs (unnamed/part_006).  A header name is the sequence of its    *)
(* character codes, so that toLowerCase is computed and not assumed.       *)
(***************************************************************************)
\* String.prototype.toLowerCase on the ASCII letters
toLowerCase(name) ==
    [i \in 1..Len(name) |-> IF name[i] \in 65..90 THEN name[i] + 32 ELSE name[i]]

\* "authorization"
H_authorization ==
    <<97, 117, 116, 104, 111, 114, 105, 122, 97, 116, 105, 111, 110>>

\* "cookie"
H_cookie ==
    <<99, 111, 111, 107, 105, 101>>

\* "x-api-key"
H_x_api_key ==
    <<120, 45, 97, 112, 105, 45, 107, 101, 121>>

\* "x-auth-token"
H_x_auth_token ==
    <<120, 45, 97, 117, 116, 104, 45, 116, 111, 107, 101, 110>>

\* "x-access-token"
H_x_access_token ==
    <<120, 45, 97, 99, 99, 101, 115, 115, 45, 116, 111, 107, 101, 110>>

\* "proxy-authorization"
H_proxy_authorization ==
    <<112, 114, 111, 120, 121, 45, 97, 117, 116, 104, 111, 114, 105, 122, 97, 116, 105, 111, 110>>

\* "referer"
H_referer ==
    <<114, 101, 102, 101, 114, 101, 114>>

\* "content-type"
H_content_type ==
    <<99, 111, 110, 116, 101, 110, 116, 45, 116, 121, 112, 101>>

\* "content-length"
H_content_length ==
    <<99, 111, 110, 116, 101, 110, 116, 45, 108, 101, 110, 103, 116, 104>>

\* "origin"
H_origin ==
    <<111, 114, 105, 103, 105, 110>>

\* "host"
H_host ==
    <<104, 111, 115, 116>>

\* "accept"
H_accept ==
    <<97, 99, 99, 101, 112, 116>>

\* "Authorization"
H_Authorization ==
    <<65, 117, 116, 104, 111, 114, 105, 122, 97, 116, 105, 111, 110>>

\* "Cookie"
H_Cookie ==
    <<67, 111, 111, 107, 105, 101>>

\* "X-API-KEY"
H_X_API_KEY ==
    <<88, 45, 65, 80, 73, 45, 75, 69, 89>>

\* "Content-Type"
H_Content_Type ==
    <<67, 111, 110, 116, 101, 110, 116, 45, 84, 121, 112, 101>>

\* "user-agent"
H_user_agent ==
    <<117, 115, 101, 114, 45, 97, 103, 101, 110, 116>>

\* "x-forwarded-for"
H_x_forwarded_for ==
    <<120, 45, 102, 111, 114, 119, 97, 114, 100, 101, 100, 45, 102, 111, 114>>

\* "x-trace-id"
H_x_trace_id ==
    <<120, 45, 116, 114, 97, 99, 101, 45, 105, 100>>

\* "x-real-ip"
H_x_real_ip ==
    <<120, 45, 114, 101, 97, 108, 45, 105, 112>>

SENSITIVE_HEADERS ==
    {H_authorization, H_cookie, H_x_api_key, H_x_auth_token, H_x_access_token, H_proxy_authorization}

\* the headers kept for debugging
DEBUG_HEADERS ==
    {H_referer, H_content_type, H_content_length, H_origin, H_host, H_accept}

REDACTED == "[REDACTED]"

\* a headers object that hands back every value as it is
sanitizeHeadersCopy(headers) == headers

\* SentryLogs.sanitizeHeaders: a new object with the sensitive headers
\* redacted, the debugging headers copied and every other header left out
sanitizeHeaders(headers) ==
    LET kept == {k \in DOMAIN headers :
                    toLowerCase(k) \in SENSITIVE_HEADERS \cup DEBUG_HEADERS}
    IN  [k \in kept |-> IF toLowerCase(k) \in SENSITIVE_HEADERS
                        THEN REDACTED ELSE headers[k]]

NoHeaders == [k \in {} |-> ""]

\* headers[name] || ''
HeaderOr(headers, name) == IF name \in DOMAIN headers THEN headers[name] ELSE ""

\* SentryLogs.getClientIP; the header values of the model hold no comma and
\* no blank, so split(',')[0].trim() leaves them as they are
getClientIP(req) ==
    IF HeaderOr(req.headers, H_x_forwarded_for) # ""
    THEN req.headers[H_x_forwarded_for]
    ELSE IF HeaderOr(req.headers, H_x_real_ip) # ""
         THEN req.headers[H_x_real_ip]
         ELSE req.remoteAddress

BodyMethods == {"POST", "PUT", "PATCH"}

\* what one scope call did: the calls it made on Sentry, the warning it
\* printed, whether it went on to next(), the exception that left it
NoContext == [method |-> "", url |-> "", headers |-> NoHeaders, hasBody |-> FALSE]

NoUser == [ip_address |-> "", user_agent |-> ""]

ScopeStart(req) ==
    [tags |-> <<>>, contextSet |-> FALSE, context |-> NoContext, sanitized |-> NoHeaders,
     userSet |-> FALSE, user |-> NoUser, ip |-> "", steps |-> <<>>, pending |-> "",
     warned |-> <<>>, nextCalls |-> 0, threw |-> "", headersAfter |-> req.headers]

\* the statements of the try block (part_006:219-241), in evaluation order:
\* the arguments of setContext and setUser are computed before the call
ScopeSteps(req, captureBody) ==
    <<"setTag:Type", "setTag:http.method", "setTag:Environment", "sanitizeHeaders">>
    \o (IF captureBody /\ req.method \in BodyMethods THEN <<"sanitizeBody">> ELSE <<>>)
    \o <<"setContext", "getClientIP", "setUser">>

\* one statement of the try block that did not throw
ScopeStep(o, step, req, nodeEnv) ==
    LET o1 == [o EXCEPT !.steps = Append(@, step)]
    IN  CASE step = "setTag:Type" ->
               [o1 EXCEPT !.tags = Append(@, <<"Type", "Request">>)]
          [] step = "setTag:http.method" ->
               [o1 EXCEPT !.tags = Append(@, <<"http.method", req.method>>)]
          [] step = "setTag:Environment" ->
               [o1 EXCEPT !.tags = Append(@, <<"Environment",
                                               IF nodeEnv = "" THEN "unknown" ELSE nodeEnv>>)]
          [] step = "sanitizeHeaders" ->
               [o1 EXCEPT !.sanitized = sanitizeHeaders(req.headers)]
          [] step = "sanitizeBody" -> o1
          [] step = "setContext" ->
               [o1 EXCEPT !.contextSet = TRUE,
                          !.context = [method |-> req.method, url |-> req.originalUrl,
                                       headers |-> o1.sanitized,
                                       hasBody |-> Len(SelectSeq(o1.steps,
                                                      LAMBDA s : s = "sanitizeBody")) > 0]]
          [] step = "getClientIP" -> [o1 EXCEPT !.ip = getClientIP(req)]
          [] step = "setUser" ->
               [o1 EXCEPT !.userSet = TRUE,
                          !.user = [ip_address |-> o1.ip,
                                    user_agent |-> HeaderOr(req.headers, H_user_agent)]]

\* the try block: statements run until the one that throws, if any
RECURSIVE ScopeTry(_, _, _, _, _)
ScopeTry(o, steps, fault, req, nodeEnv) ==
    IF steps = <<>> THEN o
    ELSE IF Head(steps) = fault
         THEN [o EXCEPT !.steps = Append(@, Head(steps)), !.pending = fault]
         ELSE ScopeTry(ScopeStep(o, Head(steps), req, nodeEnv), Tail(steps), fault, req,
                       nodeEnv)

\* a handler that lets the exception go
ScopeRethrown(o) == [o EXCEPT !.threw = o.pending, !.pending = ""]

\* catch (err) { console.warn('SentryLogs error:', err) }
ScopeCaught(o) == [o EXCEPT !.warned = Append(@, o.pending), !.pending = ""]

\* SentryLogs.scope(req, res, next); `fault` names the statement that throws
\* in this call, "none" when none does
scope(req, fault, captureBody, nodeEnv) ==
    LET tried == ScopeTry(ScopeStart(req), ScopeSteps(req, captureBody), fault, req, nodeEnv)
        after == IF tried.pending # "" THEN ScopeCaught(tried) ELSE tried
    IN  IF after.threw # "" THEN after
        ELSE [after EXCEPT !.nextCalls = @ + 1, !.steps = Append(@, "next")]

\* SentryLogs.configure(opts): only a boolean changes the switch
configure(captureBody, opts) ==
    IF opts.isBoolean THEN opts.captureBody ELSE captureBody

\* the names a request of the model may carry, in the spellings a caller of
\* sanitizeHeaders can hand over
InputHeaderNames ==
    SENSITIVE_HEADERS \cup DEBUG_HEADERS
    \cup {H_Authorization, H_Cookie, H_X_API_KEY, H_Content_Type, H_user_agent,
          H_x_forwarded_for, H_x_real_ip, H_x_trace_id}

HeaderValueSet == {"v1", "v2"}

\* req.headers: at most MaxHeaders headers
HeaderObjects ==
    UNION {[S -> HeaderValueSet] :
              S \in {T \in SUBSET InputHeaderNames : Cardinality(T) <= MaxHeaders}}

ScopeRequests ==
    [method : {"GET", "POST"}, originalUrl : {"/users/7?limit=10"},
     headers : HeaderObjects, remoteAddress : {"10.0.0.1"}]

\* the statement of the try block that throws in a call
ScopeFaults ==
    {"none", "setTag:Type", "setTag:http.method", "setTag:Environment", "sanitizeHeaders",
     "sanitizeBody", "setContext", "getClientIP", "setUser"}

IdleScopeRequest ==
    [method |-> "", originalUrl |-> "", headers |-> NoHeaders, remoteAddress |-> ""]

\* SentryLogs and the last scope call: static captureBody = false
SentryIdle ==
    [captureBody |-> FALSE, nodeEnv |-> "", called |-> FALSE, req |-> IdleScopeRequest,
     fault |-> "none", out |-> ScopeStart(IdleScopeRequest)]

(***************************************************************************)
(* FileManager (src/helpers/files.ts).  An object key is a path and a file  *)
(* name; a file name is the sequence of its character codes.               *)
(***************************************************************************)
\* ".pdf"
DotPdf == <<46, 112, 100, 102>>

\* "old.pdf", a file stored before the process started
OldPdf == <<111, 108, 100>> \o DotPdf

\* "9.pdf", a name no stored object has
NinePdf == <<57>> \o DotPdf

\* FileManager.getPath; null is ""
getPath(type) ==
    CASE type = "CONTRACT" -> "contracts/"
      [] type = "DOCUMENTATION" -> "documentation/"
      [] type = "MEMBERSHIP" -> "memberships/"
      [] OTHER -> ""

\* `${DateTime.now().toSeconds() | 0}.pdf`
NameFile(clock) == Digits(clock) \o DotPdf

NoKey == [path |-> "", name |-> <<>>]

\* what one upload call did, starting from the bucket as it found it
UploadStart(bucket) ==
    [ok |-> FALSE, message |-> "", nameFile |-> <<>>, key |-> NoKey, bucket |-> bucket,
     steps |-> <<>>, captured |-> <<>>]

UploadRefused(o, message) == [o EXCEPT !.ok = FALSE, !.message = message]

\* FileManager.destroy: DeleteObject removes the object, or the request fails
\* and the failure is reported and swallowed
destroy(o, key, fails) ==
    IF fails
    THEN [o EXCEPT !.steps = Append(@, "delete"),
                   !.captured = Append(@, "DeleteObject failed")]
    ELSE [o EXCEPT !.steps = Append(@, "delete"), !.bucket = @ \ {key}]

\* FileManager.upload(data, type, file_replace); file_replace undefined is <<>>
upload(data, type, file_replace, bucket, clock, deleteFails, putFails) ==
    LET o0 == UploadStart(bucket)
        path == getPath(type)
        nameFile == NameFile(clock)
        key == [path |-> path, name |-> nameFile]
    IN  IF data.file = "none"
        THEN UploadRefused(o0, "Favor de proporcionar un archivo a procesar")
        ELSE IF data.mimetype # "application/pdf"
        THEN UploadRefused(o0, "Favor de proporcionar un archivo con extension .pdf")
        ELSE IF path = ""
        THEN UploadRefused(o0, "El tipo de archivo proporcionado no es valido, intente con otro.")
        ELSE
            LET o1 == IF file_replace # <<>>
                      THEN destroy(o0, [path |-> path, name |-> file_replace], deleteFails)
                      ELSE o0
                o2 == [o1 EXCEPT !.steps = Append(@, "put"), !.key = key]
            IN  IF putFails
                THEN [o2 EXCEPT !.ok = FALSE,
                                !.captured = Append(@, "PutObject failed"),
                                !.message = "Error al subir el archivo a S3."]
                ELSE [o2 EXCEPT !.ok = TRUE, !.nameFile = nameFile,
                                !.bucket = @ \cup {key}]

\* the uploaded files of a request: none, a PDF, or something else
UploadData ==
    {[file |-> "none", mimetype |-> ""], [file |-> "data", mimetype |-> "application/pdf"],
     [file |-> "data", mimetype |-> "image/png"]}

UploadTypes == {"CONTRACT", "MEMBERSHIP", "INVOICE"}

\* file_replace: absent, or the name of a file the caller wants replaced
ReplaceNames(clock) == {<<>>, OldPdf, NinePdf} \cup {NameFile(t) : t \in 0..clock}

NoUploadArgs ==
    [data |-> [file |-> "none", mimetype |-> ""], type |-> "", file_replace |-> <<>>,
     deleteFails |-> FALSE, putFails |-> FALSE]

\* the bucket, the clock and the last upload call
StorageIdle ==
    [bucket |-> {}, clock |-> 0, called |-> FALSE, args |-> NoUploadArgs, before |-> {},
     out |-> UploadStart({})]

(***************************************************************************)
(* Server start-up (App of config/app.ts as kept in src/README.md,         *)
(* Database of src/config/database.ts, start of src/server.ts).            *)
(***************************************************************************)
\* Database.authenticate: sequelize.authenticate() inside a try whose catch
\* reports the error and returns { ok: false, message }; it never throws
authenticate(dbUp) ==
    IF dbUp
    THEN [ok |-> TRUE, message |-> "Conexion exitosa a la base de datos", captured |-> <<>>]
    ELSE [ok |-> FALSE,
          message |-> "No fue posible establecer la conexion a la base de datos",
          captured |-> <<"SequelizeConnectionRefusedError">>]

\* App.initDatabase: awaits authenticate and prints its message; the catch
\* (rethrow) runs only when authenticate throws
initDatabase(dbUp) ==
    LET connection == authenticate(dbUp)
    IN  [threw |-> FALSE, auth |-> IF connection.ok THEN "ok" ELSE "failed",
         logged |-> <<connection.message>>, captured |-> connection.captured]

\* Database.getConfig: the host the connection goes to
getConfig(mode) ==
    IF mode = "dev" THEN "DB_HOST_DEVELOPMENT"
    ELSE IF mode = "testing" THEN "DB_HOST_TESTING" ELSE "DB_HOST_PRODUCTION"

\* process.env.LISTEN_PORT || 3000
ListenPort(listenPort) == IF listenPort = "" THEN "3000" ELSE listenPort

\* the process before anything ran
ServerIdle ==
    [hasSentryDsn |-> TRUE, hasDbEnv |-> TRUE, dbUp |-> TRUE, portFree |-> TRUE,
     mode |-> "dev", listenPort |-> "", host |-> "", port |-> "",
     pc |-> "load", auth |-> "none", listening |-> FALSE, failed |-> "",
     logged |-> <<>>, captured |-> <<>>]

(***************************************************************************)
(* The state machine.                                                      *)
(***************************************************************************)
NoHeld == [tok |-> NoToken, type_token |-> "", id |-> Undef, expiresIn |-> ""]

IssueIdle ==
    [called |-> FALSE, impl |-> "", data |-> NoData, type_token |-> "", expiresIn |-> "",
     algorithm |-> "", before |-> NoHeld, out |-> IssueStart]

IdleRequest ==
    [impl |-> "", receiver |-> "", header |-> NoHeader, body |-> EmptyBody,
     nextThrows |-> FALSE]

RespIdle == [called |-> FALSE, req |-> IdleRequest, out |-> RespStart(IdleRequest)]

\* the variables a specification does not move
OthersParked == sentry = SentryIdle /\ storage = StorageIdle /\ server = ServerIdle

Init ==
    \E d \in Deployments :
        /\ env = d.env
        /\ files = d.files
        /\ publicKey = LoadPublicKey(d.env, d.files)
        /\ now = 0
        /\ held = NoHeld
        /\ issue = IssueIdle
        /\ resp = RespIdle
        /\ OthersParked

\* no call is in progress: the last call's record has been dropped
Idle == ~issue.called /\ ~resp.called

\* the arguments of a createToken call: v2 takes all four, v1 takes the
\* data alone and always issues a 'user' token with the defaults
IssueCalls ==
    [impl : {"v2"}, data : DataValues, type_token : TokenTypes,
     expiresIn : ExpiresInValues, algorithm : AlgorithmValues]
    \cup [impl : {"v1"}, data : DataValues, type_token : {"user"},
          expiresIn : {DefaultExpiresIn}, algorithm : {DefaultAlgorithm}]

\* a caller (a login handler) asks for a token; `before` is the token the
\* client held until then
CreateToken ==
    /\ Idle
    /\ \E c \in IssueCalls, iv \in IvValues :
        LET out == IF c.impl = "v2"
                   THEN createToken(c.data, c.type_token, c.expiresIn, c.algorithm,
                                    env, files, now, iv)
                   ELSE createToken_v1(c.data, env, files, now, iv)
        IN
            /\ issue' = [called |-> TRUE, impl |-> c.impl, data |-> c.data,
                         type_token |-> c.type_token, expiresIn |-> c.expiresIn,
                         algorithm |-> c.algorithm, before |-> held, out |-> out]
            /\ held' = IF out.ok
                       THEN [tok |-> out.token, type_token |-> c.type_token,
                             id |-> SubjectOf(c.data, c.type_token),
                             expiresIn |-> c.expiresIn]
                       ELSE held
            /\ UNCHANGED <<env, files, publicKey, now, resp, others>>

\* a middleware that keeps the key of the token it saw last in the class field
ValidateJWTCaching ==
    /\ Idle
    /\ \E c \in Callers, h \in HeaderValues(held.tok), b \in BodyValues, nt \in BOOLEAN :
        LET req == [impl |-> c.impl, receiver |-> c.receiver, header |-> h, body |-> b,
                    nextThrows |-> nt]
        IN
            /\ c.impl = "v2" => publicKey.ok
            /\ resp' = [called |-> TRUE, req |-> req,
                        out |-> IF c.impl = "v2"
                                THEN validateJWT(req, env, publicKey.data, now)
                                ELSE validateJWT_v1(req, env, files, now)]
            /\ publicKey' = [publicKey EXCEPT !.data = PublicOf(h.tok.signer)]
            /\ UNCHANGED <<env, files, now, held, issue, others>>

\* a request reaches the middleware
ValidateJWT ==
    /\ Idle
    /\ \E c \in Callers, h \in HeaderValues(held.tok), b \in BodyValues, nt \in BOOLEAN :
        LET req == [impl |-> c.impl, receiver |-> c.receiver, header |-> h, body |-> b,
                    nextThrows |-> nt]
        IN
            /\ c.impl = "v2" => publicKey.ok
            /\ resp' = [called |-> TRUE, req |-> req,
                        out |-> IF c.impl = "v2"
                                THEN validateJWT(req, env, publicKey.data, now)
                                ELSE validateJWT_v1(req, env, files, now)]
            /\ UNCHANGED <<env, files, publicKey, now, held, issue, others>>

\* a second passes
Tick ==
    /\ Idle
    /\ now < MaxNow
    /\ now' = now + 1
    /\ UNCHANGED <<env, files, publicKey, held, issue, resp, others>>

\* the process is redeployed: new environment, new key files, classes reloaded
Restart ==
    /\ Idle
    /\ \E d \in Deployments :
        /\ d.env # env \/ d.files # files
        /\ env' = d.env
        /\ files' = d.files
        /\ publicKey' = LoadPublicKey(d.env, d.files)
        /\ UNCHANGED <<now, held, issue, resp, others>>

\* the call returns: its result goes to the caller, or its response to the
\* client, and the per-call objects are gone
Complete ==
    /\ ~Idle
    /\ issue' = IssueIdle
    /\ resp' = RespIdle
    /\ UNCHANGED <<env, files, publicKey, now, held, others>>

Next == CreateToken \/ ValidateJWT \/ Tick \/ Restart \/ Complete

Spec == Init /\ [][Next]_vars

(***************************************************************************)
(* SentryLogs as a state machine of its own: the token variables stay put.  *)
(***************************************************************************)
ParkedDeployment == CHOOSE d \in Deployments : d.env.MODE = "dev"

TokensParked ==
    /\ env = ParkedDeployment.env
    /\ files = ParkedDeployment.files
    /\ publicKey = LoadPublicKey(ParkedDeployment.env, ParkedDeployment.files)
    /\ now = 0
    /\ held = NoHeld
    /\ issue = IssueIdle
    /\ resp = RespIdle

InitLogs ==
    /\ TokensParked
    /\ \E e \in {"", "production"} : sentry = [SentryIdle EXCEPT !.nodeEnv = e]
    /\ storage = StorageIdle
    /\ server = ServerIdle

\* SentryLogs.configure({captureBody}) or SentryLogs.configure({})
Configure ==
    /\ ~sentry.called
    /\ \E opts \in [isBoolean : BOOLEAN, captureBody : BOOLEAN] :
          sentry' = [sentry EXCEPT !.captureBody = configure(@, opts)]
    /\ UNCHANGED <<tokens, storage, server>>

\* a request passes through SentryLogs.scope
Scope ==
    /\ ~sentry.called
    /\ \E req \in ScopeRequests, fault \in ScopeFaults :
          sentry' = [sentry EXCEPT !.called = TRUE, !.req = req, !.fault = fault,
                                   !.out = scope(req, fault, sentry.captureBody,
                                                 sentry.nodeEnv)]
    /\ UNCHANGED <<tokens, storage, server>>

\* the request has gone on to the next step of the pipeline
ScopeDone ==
    /\ sentry.called
    /\ sentry' = [SentryIdle EXCEPT !.captureBody = sentry.captureBody,
                                    !.nodeEnv = sentry.nodeEnv]
    /\ UNCHANGED <<tokens, storage, server>>

NextLogs == Configure \/ Scope \/ ScopeDone

SpecLogs == InitLogs /\ [][NextLogs]_vars


(***************************************************************************)
(* Properties.                                                             *)
(***************************************************************************)
Versions == {"v1", "v2"}

\* the request being handled and what the middleware did with it
Handling(impl) == resp.called /\ resp.req.impl = impl

\* one JSON error response {ok: false, errors: [{message}]} was written
ErrorWritten(o) == o.writes = 1 /\ o.status \in {401, 403, 500} /\ o.message # ""

\* the header carries the client's token as createToken returned it,
\* bare or after "Bearer "
PresentsHeldToken(req) ==
    /\ held.tok.alg # ""
    /\ req.header \in {Header(<<>>, held.tok), Header(BearerPrefix, held.tok)}

\* the verifier shares the issuer's secret and holds the public half of its key
SameSecretAndKeyPair ==
    /\ held.tok.user_id.key = env.CRYPTR_KEY
    /\ publicKey.ok
    /\ PublicOf(held.tok.signer) = publicKey.data

\* C1: End-to-end round trip. A token createToken returned for kind 'user',
\* presented bare or after 'Bearer ' to validateJWT (v2) run as an Express
\* pipeline step, under the same secret and a matching key pair and before
\* its expiration, ends with next() called, no error response, and the
\* number equal to the identifier attached to the request.
C1_RoundTrip ==
    ( /\ Handling("v2")
      /\ resp.req.receiver = "undefined"
      /\ ~resp.req.nextThrows
      /\ held.type_token = "user"
      /\ PresentsHeldToken(resp.req)
      /\ SameSecretAndKeyPair
      /\ now < held.tok.exp )
    => ( /\ resp.out.nextCalls = 1
         /\ resp.out.writes = 0
         /\ resp.out.userId.t = "num"
         /\ JSString(resp.out.userId) = JSString(held.id) )

\* C2: Every request handled by validateJWT ends in exactly one of: next()
\* called once and nothing written, or one JSON error response with status
\* 401, 403 or 500 written and next() not called; also when next() throws.
C2_On(impl) ==
    Handling(impl) =>
        \/ resp.out.nextCalls = 1 /\ resp.out.writes = 0
        \/ resp.out.nextCalls = 0 /\ ErrorWritten(resp.out)

C2_ExactlyOneOutcome == \A impl \in Versions : C2_On(impl)

\* C3: A request with no Authorization header is answered 401 with a JSON
\* error body; next() is not called and neither signature verification nor
\* decryption is attempted.
C3_On(impl) ==
    (Handling(impl) /\ ~resp.req.header.present) =>
        /\ ErrorWritten(resp.out)
        /\ resp.out.status = 401
        /\ resp.out.nextCalls = 0
        /\ \A i \in 1..Len(resp.out.steps) : resp.out.steps[i] \notin {"verify", "decrypt"}

C3_MissingCredential == \A impl \in Versions : C3_On(impl)

\* C3, on v2 alone
C3_MissingCredentialV2 == C3_On("v2")

\* C4: When CRYPTR_KEY is not configured, every request that carries an
\* Authorization header is answered 500 with a JSON error body, which no 403
\* answer equals.
C4_On(impl) ==
    (Handling(impl) /\ env.CRYPTR_KEY = "" /\ ~HeaderFalsy(resp.req.header)) =>
        /\ ErrorWritten(resp.out)
        /\ resp.out.status = 500
        /\ resp.out.nextCalls = 0

C4_ServerMisconfigured == \A impl \in Versions : C4_On(impl)

\* C4, on v2 alone
C4_ServerMisconfiguredV2 == C4_On("v2")

\* C5: Every token that fails jwt.verify (bad signature, tampered, expired,
\* malformed, wrong algorithm) is answered 403 with a generic message: the
\* body holds no text of the verification error and is the same for every cause.
C5_On(impl) ==
    (Handling(impl) /\ resp.out.verifyErr # "") =>
        /\ ErrorWritten(resp.out)
        /\ resp.out.status = 403
        /\ resp.out.detail = ""
        /\ resp.out.nextCalls = 0

C5_GenericRejection == \A impl \in Versions : C5_On(impl)

\* C5, on v2 alone
C5_GenericRejectionV2 == C5_On("v2")

\* C6: A token whose signature verifies and whose payload has no user_id is
\* answered 403; decryption is not attempted, no identifier is attached
\* (neither to the request nor to its body) and next() is not called.
C6_ClaimMissing ==
    (resp.called /\ resp.out.verified /\ ~resp.out.cred.tok.has_user_id) =>
        /\ ErrorWritten(resp.out)
        /\ resp.out.status = 403
        /\ \A i \in 1..Len(resp.out.steps) : resp.out.steps[i] # "decrypt"
        /\ resp.out.userId = Undef
        /\ resp.out.bodyAfter = resp.req.body
        /\ resp.out.nextCalls = 0

\* C6 happens: a validly signed client token reached the claim check of v2
C6_Witness ==
    /\ Handling("v2")
    /\ resp.out.verified
    /\ resp.out.cred.tok.has_client_id
    /\ ~resp.out.cred.tok.has_user_id
    /\ resp.out.status = 403

\* the same implementation's answer to the same request carrying a token
\* whose payload was changed after signing (an invalid signature)
InvalidSignatureAnswer(req) ==
    LET probe == [req EXCEPT !.header = Header(<<>>, Tampered(held.tok))]
    IN  IF req.impl = "v2" THEN validateJWT(probe, env, publicKey.data, now)
        ELSE validateJWT_v1(probe, env, files, now)

\* C7: When decryption of the user_id claim fails, the response (status and
\* body) equals the response to an invalid signature.
C7_On(impl) ==
    (Handling(impl) /\ resp.out.decryptErr # "") =>
        LET ref == InvalidSignatureAnswer(resp.req)
        IN  /\ resp.out.status = 403
            /\ <<resp.out.status, resp.out.message, resp.out.detail>>
                 = <<ref.status, ref.message, ref.detail>>

C7_StageNotLeaked == \A impl \in Versions : C7_On(impl)

\* C7, on v2 alone
C7_StageNotLeakedV2 == C7_On("v2")

\* C8: For every request and every outcome, req.body after validateJWT equals
\* req.body before it.
C8_On(impl) == Handling(impl) => resp.out.bodyAfter = resp.req.body

C8_BodyUnchanged == \A impl \in Versions : C8_On(impl)

\* C8, on v2 alone
C8_BodyUnchangedV2 == C8_On("v2")

\* C9: The credential handed to verification is the header after its first 7
\* characters when these are exactly 'Bearer ', and the whole header otherwise.
C9_On(impl) ==
    (Handling(impl) /\ ~HeaderFalsy(resp.req.header)) =>
        LET h == resp.req.header
            c == resp.out.cred
            bearer == /\ Len(h.chars) >= 7
                      /\ \A i \in 1..7 : h.chars[i] = BearerPrefix[i]
        IN  IF bearer
            THEN /\ c.tok = h.tok
                 /\ Len(c.chars) = Len(h.chars) - 7
                 /\ \A i \in 1..Len(c.chars) : c.chars[i] = h.chars[i + 7]
            ELSE c = h

C9_TokenExtraction == \A impl \in Versions : C9_On(impl)

\* C9, on v2 alone
C9_TokenExtractionV2 == C9_On("v2")

\* the request presents a token at or after its expiration time
PresentsExpiredToken(req) == req.header.tok.alg # "" /\ now >= req.header.tok.exp

\* C10 as stated: a token is accepted only before its expiration; presented at
\* or after it, the request is always answered 403 and reaches neither
\* decryption nor next().
C10_AsStated ==
    /\ (Handling("v2") /\ resp.out.nextCalls = 1) => now < resp.out.cred.tok.exp
    /\ (Handling("v2") /\ PresentsExpiredToken(resp.req)) =>
          /\ ErrorWritten(resp.out)
          /\ resp.out.status = 403
          /\ \A i \in 1..Len(resp.out.steps) : resp.out.steps[i] # "decrypt"
          /\ resp.out.nextCalls = 0

\* C10 as amended: a token is accepted only before its expiration; presented
\* at or after it, the request is always rejected, with 403 when CRYPTR_KEY
\* is configured and 500 when it is not, and reaches neither decryption nor next().
C10_ExpirationEnforced ==
    /\ (Handling("v2") /\ resp.out.nextCalls = 1) => now < resp.out.cred.tok.exp
    /\ (Handling("v2") /\ PresentsExpiredToken(resp.req)) =>
          /\ ErrorWritten(resp.out)
          /\ resp.out.status = (IF env.CRYPTR_KEY = "" THEN 500 ELSE 403)
          /\ \A i \in 1..Len(resp.out.steps) : resp.out.steps[i] # "decrypt"
          /\ resp.out.nextCalls = 0

\* C10 happens: an otherwise valid token presented exactly at its expiration
\* time reached jwt.verify and was refused as expired
C10_Witness ==
    /\ Handling("v2")
    /\ resp.req.receiver = "CheckHeaders"
    /\ PresentsHeldToken(resp.req)
    /\ SameSecretAndKeyPair
    /\ held.tok.iat < held.tok.exp
    /\ now = held.tok.exp
    /\ resp.out.verifyErr = "TokenExpiredError: jwt expired"
    /\ resp.out.status = 403

\* a createToken call made on this version of Payload
Issuing(impl) == issue.called /\ issue.impl = impl

\* the steps of a createToken call that touch the key, the cipher or the signer
KeyCipherSignSteps ==
    {"getPrivateKey", "readPrivateKey", "newCryptr", "encrypt", "sign"}

\* C11: createToken (v2) given a subject object whose identifier (user_id for
\* kind 'user', client_id for kind 'client') is absent, undefined or the
\* empty string returns {ok:false, error} with the message naming that field,
\* returns no token, and reads no key, encrypts nothing and signs nothing.
C11_MissingSubject ==
    ( /\ Issuing("v2")
      /\ issue.data.isObject
      /\ \/ ~SubjectPresent(issue.data, issue.type_token)
         \/ SubjectOf(issue.data, issue.type_token) \in {Undef, Str(<<>>)} )
    => ( /\ ~issue.out.ok
         /\ issue.out.hasError
         /\ issue.out.error = MissingFieldMessage(SubjectField(issue.type_token))
         /\ issue.out.token = NoToken
         /\ held = issue.before
         /\ issue.out.keyReads = 0
         /\ \A i \in 1..Len(issue.out.steps) : issue.out.steps[i] \notin KeyCipherSignSteps )

\* C11 happens: createToken({user_id: ''}, 'user') was refused
C11_Witness ==
    /\ Issuing("v2")
    /\ issue.data = UserData(Str(<<>>))
    /\ issue.type_token = "user"
    /\ issue.out.error = MissingFieldMessage("user_id")
    /\ issue.out.steps = <<"validate">>

\* C12: no createToken call lets an exception escape; it returns
\* {ok:true, token} on success and {ok:false, error} with a non-empty error
\* message on every failure.
C12_On(impl) ==
    Issuing(impl) =>
        /\ ~issue.out.threw
        /\ \/ issue.out.ok /\ issue.out.token # NoToken /\ ~issue.out.hasError
           \/ /\ ~issue.out.ok
              /\ issue.out.token = NoToken
              /\ issue.out.hasError
              /\ issue.out.error # ""

C12_StructuredResult == \A impl \in Versions : C12_On(impl)

\* C12, on v2 alone
C12_StructuredResultV2 == C12_On("v2")

\* the claim of a token that its kind selects, and the other one
SubjectClaim(t, type_token) == IF type_token = "user" THEN t.user_id ELSE t.client_id
OtherClaim(t, type_token) == IF type_token = "user" THEN t.client_id ELSE t.user_id

\* C13: every token createToken (v2) produced carries exactly one subject
\* claim, user_id for kind 'user' and client_id for kind 'client', made of
\* the identifier of that kind alone; nothing else of the caller's object is in it.
C13_OneSubjectClaim ==
    (Issuing("v2") /\ issue.out.ok) =>
        LET t == issue.out.token
        IN  /\ t.has_user_id = (issue.type_token = "user")
            /\ t.has_client_id = (issue.type_token = "client")
            /\ t.has_user_id # t.has_client_id
            /\ OtherClaim(t, issue.type_token) = NoCipher
            /\ SubjectClaim(t, issue.type_token).plain
                 = JSString(SubjectOf(issue.data, issue.type_token))

\* C13 happens: a 'client' token was made from an object holding both fields
C13_Witness ==
    /\ Issuing("v2")
    /\ issue.out.ok
    /\ issue.type_token = "client"
    /\ issue.data.has_user_id
    /\ issue.data.has_client_id
    /\ ~issue.out.token.has_user_id

\* C14: in every token createToken produced, the subject claim is the
\* ciphertext of the identifier under the shared secret CRYPTR_KEY, and no
\* claim of the payload is readable without that secret.
C14_On(impl) ==
    (Issuing(impl) /\ issue.out.ok) =>
        LET t == issue.out.token
            c == SubjectClaim(t, issue.type_token)
        IN  /\ c.key = env.CRYPTR_KEY
            /\ c.key # ""
            /\ c.plain = JSString(SubjectOf(issue.data, issue.type_token))
            /\ OtherClaim(t, issue.type_token) = NoCipher

C14_ClaimConfidential == \A impl \in Versions : C14_On(impl)

\* C14 happens: a token was issued for the numeric identifier
C14_Witness ==
    /\ issue.called
    /\ issue.out.ok
    /\ issue.type_token = "user"
    /\ issue.data.user_id = Num(MaxUserId)
    /\ issue.out.token.user_id.plain = Digits(MaxUserId)

\* a createToken call (v2) that failed on an exception its catch block caught:
\* it failed past validation, or validation itself threw
InternalIssueFault ==
    /\ Issuing("v2")
    /\ ~issue.out.ok
    /\ \/ ~issue.data.isObject
       \/ \E i \in 1..Len(issue.out.steps) : issue.out.steps[i] = "getPrivateKey"

\* a validateJWT request (v2) whose catch block caught an internal fault: the
\* cipher refusing the claim, or the TypeError of reading this.publicKey
InternalVerifyFault ==
    /\ Handling("v2")
    /\ (resp.out.decryptErr # "" \/ resp.out.thisErr # "")

\* every captured error was also logged, with the time of the call
LoggedWithTime(o) ==
    /\ Len(o.logged) = Len(o.captured)
    /\ \A i \in 1..Len(o.logged) : o.logged[i].at = now /\ o.logged[i].text = o.captured[i]

\* C15, the part about createToken: the error its catch block caught went to
\* captureException and to the log, with the time
C15_IssuerReports ==
    InternalIssueFault => (issue.out.captured # <<>> /\ LoggedWithTime(issue.out))

\* C15: every internal error caught inside createToken and inside validateJWT
\* is forwarded to captureException and logged locally with the time.
C15_InternalErrorsReported ==
    /\ C15_IssuerReports
    /\ InternalVerifyFault => (resp.out.captured # <<>> /\ resp.out.logged # <<>>)

GenericIssueErrors ==
    {MissingFieldMessage("user_id"), MissingFieldMessage("client_id"),
     "No se pudo leer la clave privada.", "Error al generar el token."}

\* C17, the part about createToken (v2): on a key, cipher or signing failure
\* the error field is one of the messages the method words itself
C17_IssuerErrorGeneric ==
    ( /\ Issuing("v2")
      /\ ~issue.out.ok
      /\ \E i \in 1..Len(issue.out.steps) : issue.out.steps[i] = "getPrivateKey" )
    => issue.out.error \in GenericIssueErrors

\* C17, the part about validateJWT: the error body holds no text of the
\* exception that was caught
C17_VerifierBodyGeneric(impl) ==
    (Handling(impl) /\ resp.out.writes > 0) => resp.out.detail = ""

\* C17: no caller-visible output carries raw internal error text, neither the
\* error field of createToken on a key, cipher or signing failure nor the
\* error body validateJWT writes.
C17_NoRawErrorText ==
    /\ C17_IssuerErrorGeneric
    /\ \A impl \in Versions : C17_VerifierBodyGeneric(impl)

\* C17, the error body of validateJWT on v2 alone
C17_VerifierBodyGenericV2 == C17_VerifierBodyGeneric("v2")

\* jwt.verify accepts the bare token against the public half of the key that
\* signed it, asked one second before the token expires
VerifiesAlone(t) == JwtVerify(Header(<<>>, t), PublicOf(t.signer), t.exp - 1).ok

\* cryptr.decrypt of the subject claim under the secret the token was issued with
DecryptsAlone(t, type_token) ==
    CryptrDecrypt(SubjectClaim(t, type_token).key, SubjectClaim(t, type_token))

\* this createToken call (v2) succeeded with the subject and the expiresIn
\* of the call that made the token held before it
SameCallAsBefore ==
    /\ Issuing("v2")
    /\ issue.out.ok
    /\ issue.before.tok.alg # ""
    /\ issue.before.type_token = issue.type_token
    /\ issue.before.id = SubjectOf(issue.data, issue.type_token)
    /\ issue.before.expiresIn = issue.expiresIn

\* both tokens verify on their own and decrypt to the identifier of the calls
BothVerifyAndDecrypt ==
    LET a == issue.before.tok
        b == issue.out.token
        id == JSString(SubjectOf(issue.data, issue.type_token))
    IN  /\ VerifiesAlone(a)
        /\ VerifiesAlone(b)
        /\ DecryptsAlone(a, issue.type_token) = [ok |-> TRUE, plain |-> id, err |-> ""]
        /\ DecryptsAlone(b, issue.type_token) = [ok |-> TRUE, plain |-> id, err |-> ""]

\* C18 as stated: two createToken calls with identical subject and identical
\* expiresIn always produce different tokens, and both tokens verify and
\* decrypt to the same identifier.
C18_AsStated ==
    SameCallAsBefore => (issue.out.token # issue.before.tok /\ BothVerifyAndDecrypt)

\* C18 as amended: two createToken calls with identical subject and identical
\* expiresIn made at different clock seconds produce different tokens; in
\* every case both tokens verify and decrypt to the same identifier.
C18_DistinctAcrossSeconds ==
    /\ (SameCallAsBefore /\ issue.before.tok.iat # now) => issue.out.token # issue.before.tok
    /\ SameCallAsBefore => BothVerifyAndDecrypt

\* C18 happens: the same call was made a second later, same secret, same key,
\* same initialisation vector, and the two tokens differ
C18_Witness ==
    /\ SameCallAsBefore
    /\ issue.before.tok.iat = 0
    /\ now = 1
    /\ issue.before.tok.signer = issue.out.token.signer
    /\ SubjectClaim(issue.before.tok, issue.type_token)
         = SubjectClaim(issue.out.token, issue.type_token)
    /\ issue.out.token # issue.before.tok

\* C19: a token issued under one shared secret and presented, unexpired and
\* with a matching key pair, to validateJWT (v2) configured with another
\* secret is answered 403; no identifier is attached and next() is not called.
C19_SecretSensitivity ==
    ( /\ Handling("v2")
      /\ PresentsHeldToken(resp.req)
      /\ publicKey.ok
      /\ PublicOf(held.tok.signer) = publicKey.data
      /\ now < held.tok.exp
      /\ env.CRYPTR_KEY # ""
      /\ SubjectClaim(held.tok, held.type_token).key # env.CRYPTR_KEY )
    => ( /\ ErrorWritten(resp.out)
         /\ resp.out.status = 403
         /\ resp.out.userId = Undef
         /\ resp.out.bodyAfter = resp.req.body
         /\ resp.out.nextCalls = 0 )

\* C19 happens: the token verified and the cipher refused its user_id claim
C19_Witness ==
    /\ Handling("v2")
    /\ PresentsHeldToken(resp.req)
    /\ held.type_token = "user"
    /\ held.tok.user_id.key # env.CRYPTR_KEY
    /\ resp.out.verified
    /\ resp.out.decryptErr # ""
    /\ resp.out.status = 403

\* a file can be read at this path
Readable(fs, path) == path # "" /\ path \in DOMAIN fs /\ fs[path] # ""

\* C20: the keys are read from the fixed repo-relative paths when MODE is
\* 'dev' and from the PRIVATE_KEY and PUBLIC_KEY paths for every other MODE;
\* the accessor fails when that path is unset or the file unreadable, and
\* createToken (v2) then returns {ok:false} with the key-unavailable error
\* and signs nothing.
C20_KeyResolution ==
    /\ publicKey.path = (IF env.MODE = "dev" THEN DevPublicPath ELSE env.PUBLIC_KEY)
    /\ publicKey.ok = Readable(files, publicKey.path)
    /\ publicKey.ok => publicKey.data = files[publicKey.path]
    /\ (Issuing("v2") /\ issue.out.keyReads > 0) =>
          /\ issue.out.keyPath = (IF env.MODE = "dev" THEN DevPrivatePath ELSE env.PRIVATE_KEY)
          /\ ~Readable(files, issue.out.keyPath) =>
                /\ ~issue.out.ok
                /\ issue.out.token = NoToken
                /\ issue.out.error = "No se pudo leer la clave privada."
                /\ \A i \in 1..Len(issue.out.steps) :
                      issue.out.steps[i] \notin {"newCryptr", "encrypt", "sign"}
          /\ (Readable(files, issue.out.keyPath) /\ issue.out.ok) =>
                issue.out.token.signer = files[issue.out.keyPath]

\* C20 happens: outside dev with PRIVATE_KEY unset, createToken failed on the key
C20_Witness ==
    /\ Issuing("v2")
    /\ env.MODE # "dev"
    /\ env.PRIVATE_KEY = ""
    /\ issue.out.keyReads = 1
    /\ issue.out.error = "No se pudo leer la clave privada."
    /\ issue.out.captured # <<>>

\* the place of x in a sequence that holds it
Position(seq, x) == CHOOSE i \in 1..Len(seq) : seq[i] = x

\* the steps ran in the order of `order`, each at most once
InOrder(steps, order) ==
    /\ \A i \in 1..Len(steps) : \E k \in 1..Len(order) : order[k] = steps[i]
    /\ \A i, j \in 1..Len(steps) :
          i < j => Position(order, steps[i]) < Position(order, steps[j])

Ran(steps, x) == \E i \in 1..Len(steps) : steps[i] = x

\* the steps of validateJWT (v2) in the order of part_005:197-246
VerifierOrder ==
    <<"extract", "precheck", "verify", "claimCheck", "decrypt", "attach", "next", "respond">>

IssuerOrder ==
    <<"validate", "getPrivateKey", "readPrivateKey", "newCryptr", "encrypt", "sign">>

\* C26: createToken validates first, then resolves the signing key, then
\* encrypts the claim, then signs, and stops at the first failure: no cipher
\* and no signature without the private key, no signature without the cipher.
C26_On(impl) ==
    Issuing(impl) =>
        LET st == issue.out.steps
            keyPath == IF env.MODE = "dev" THEN DevPrivatePath ELSE env.PRIVATE_KEY
            readable == keyPath # "" /\ keyPath \in DOMAIN files /\ files[keyPath] # ""
        IN  /\ st # <<>>
            /\ st[1] = "validate"
            /\ InOrder(st, IssuerOrder)
            /\ ~readable => ~(Ran(st, "newCryptr") \/ Ran(st, "encrypt") \/ Ran(st, "sign"))
            /\ env.CRYPTR_KEY = "" => ~Ran(st, "sign")
            /\ Ran(st, "sign") => Ran(st, "encrypt")
            /\ Ran(st, "encrypt") => (Ran(st, "getPrivateKey") \/ Ran(st, "readPrivateKey"))

C26_StepOrder == \A impl \in Versions : C26_On(impl)

\* C26, on v2 alone
C26_StepOrderV2 == C26_On("v2")

\* C27: no createToken call and no validateJWT request reads a key file; key
\* material is read once, when the process starts.
C27_On(impl) ==
    /\ Issuing(impl) => issue.out.keyReads = 0
    /\ Handling(impl) => ~Ran(resp.out.steps, "readPublicKey")

C27_KeysReadAtStartup == \A impl \in Versions : C27_On(impl)

\* C27, the part about validateJWT on v2 alone
C27_VerifierReadsAtStartupV2 == Handling("v2") => ~Ran(resp.out.steps, "readPublicKey")

\* the request presents the held token, a 'client' token validly signed for
\* this verifier and not expired
PresentsValidClientToken ==
    /\ Handling("v2")
    /\ held.type_token = "client"
    /\ PresentsHeldToken(resp.req)
    /\ publicKey.ok
    /\ PublicOf(held.tok.signer) = publicKey.data
    /\ now < held.tok.exp

\* never attached, never passed on
NotAuthenticated ==
    /\ ErrorWritten(resp.out)
    /\ resp.out.userId = Undef
    /\ resp.out.bodyAfter = resp.req.body
    /\ resp.out.nextCalls = 0

\* C29 as stated: a validly signed, unexpired 'client' token presented to
\* validateJWT (v2) is always answered 403, no identifier is attached and
\* next() is not called.
C29_AsStated == PresentsValidClientToken => (NotAuthenticated /\ resp.out.status = 403)

\* C29 as amended: such a token is always rejected, with 403 when CRYPTR_KEY
\* is configured and 500 when it is not; no identifier is attached and next()
\* is not called.
C29_ClientTokenRejected ==
    PresentsValidClientToken =>
        /\ NotAuthenticated
        /\ resp.out.status = (IF env.CRYPTR_KEY = "" THEN 500 ELSE 403)

\* C29 happens: the client token verified and failed the claim check
C29_Witness ==
    /\ PresentsValidClientToken
    /\ resp.out.verified
    /\ resp.out.cred.tok.has_client_id
    /\ ~Ran(resp.out.steps, "decrypt")
    /\ resp.out.status = 403

\* C30: a failed createToken call (v2) calls captureException at most once,
\* whatever made it fail.
C30_ReportedAtMostOnce ==
    (Issuing("v2") /\ ~issue.out.ok) => Len(issue.out.captured) <= 1

\* C23: SentryLogs.scope never throws and calls next() exactly once for every
\* request, whichever Sentry call or sanitization step inside it throws; the
\* request goes on as it does when nothing fails.
C23_ScopeAlwaysContinues ==
    sentry.called =>
        LET clean == scope(sentry.req, "none", sentry.captureBody, sentry.nodeEnv)
        IN  /\ sentry.out.threw = ""
            /\ sentry.out.nextCalls = 1
            /\ sentry.out.steps[Len(sentry.out.steps)] = "next"
            /\ sentry.out.nextCalls = clean.nextCalls
            /\ sentry.out.headersAfter = clean.headersAfter

\* C23 happens: a step inside the try block threw and the request went on
C23_Witness ==
    /\ sentry.called
    /\ sentry.fault = "sanitizeHeaders"
    /\ sentry.out.warned = <<"sanitizeHeaders">>
    /\ ~sentry.out.contextSet
    /\ sentry.out.nextCalls = 1

\* C24: the Request context handed to Sentry holds '[REDACTED]' for every
\* header whose lower-cased name is sensitive, holds no header outside the
\* sensitive and the debugging names, takes the debugging headers as they
\* came, and the request's own headers object is left as it was.
C24_HeadersRedacted ==
    (sentry.called /\ sentry.out.contextSet) =>
        LET sent == sentry.out.context.headers
            orig == sentry.req.headers
        IN  /\ DOMAIN sent \subseteq DOMAIN orig
            /\ \A k \in DOMAIN sent :
                  /\ toLowerCase(k) \in SENSITIVE_HEADERS \cup DEBUG_HEADERS
                  /\ toLowerCase(k) \in SENSITIVE_HEADERS =>
                        (sent[k] = REDACTED /\ sent[k] # orig[k])
            /\ sentry.out.headersAfter = orig

\* C24 happens: a request with a capitalised Authorization header and a
\* header outside both lists had its context recorded
C24_Witness ==
    /\ sentry.called
    /\ sentry.out.contextSet
    /\ DOMAIN sentry.req.headers = {H_Authorization, H_user_agent}
    /\ DOMAIN sentry.out.context.headers = {H_Authorization}
    /\ sentry.out.context.headers[H_Authorization] = REDACTED


(***************************************************************************)
(* FileManager as a state machine of its own.                              *)
(***************************************************************************)
InitFiles ==
    /\ TokensParked
    /\ sentry = SentryIdle
    /\ \E b \in SUBSET {[path |-> "contracts/", name |-> OldPdf],
                        [path |-> "memberships/", name |-> OldPdf]} :
          storage = [StorageIdle EXCEPT !.bucket = b]
    /\ server = ServerIdle

\* a caller uploads a file; each of the two S3 requests may fail
Upload ==
    /\ ~storage.called
    /\ \E data \in UploadData, type \in UploadTypes,
          file_replace \in ReplaceNames(storage.clock), df \in BOOLEAN, pf \in BOOLEAN :
          LET out == upload(data, type, file_replace, storage.bucket, storage.clock, df, pf)
          IN  storage' = [storage EXCEPT
                            !.called = TRUE,
                            !.args = [data |-> data, type |-> type,
                                      file_replace |-> file_replace,
                                      deleteFails |-> df, putFails |-> pf],
                            !.before = storage.bucket,
                            !.out = out,
                            !.bucket = out.bucket]
    /\ UNCHANGED <<tokens, sentry, server>>

\* the promise settles and the result goes to the caller
UploadDone ==
    /\ storage.called
    /\ storage' = [StorageIdle EXCEPT !.bucket = storage.bucket, !.clock = storage.clock]
    /\ UNCHANGED <<tokens, sentry, server>>

\* a second passes
FilesTick ==
    /\ ~storage.called
    /\ storage.clock < MaxNow
    /\ storage' = [storage EXCEPT !.clock = @ + 1]
    /\ UNCHANGED <<tokens, sentry, server>>

NextFiles == Upload \/ UploadDone \/ FilesTick

SpecFiles == InitFiles /\ [][NextFiles]_vars

\* the object the call was asked to replace
ReplacedKey == [path |-> getPath(storage.args.type), name |-> storage.args.file_replace]

\* C22: for every upload call with file_replace set, a call that returns
\* ok:false leaves the previously stored object in the bucket, and the old
\* object is gone only when the new object has been stored.
C22_SafeReplace ==
    (storage.called /\ storage.args.file_replace # <<>> /\ ReplacedKey \in storage.before) =>
        /\ ~storage.out.ok => ReplacedKey \in storage.bucket
        /\ ReplacedKey \notin storage.bucket =>
              (storage.out.ok /\ storage.out.key \in storage.bucket)


(***************************************************************************)
(* Server start-up as a state machine of its own.                          *)
(***************************************************************************)
InitServer ==
    /\ TokensParked
    /\ sentry = SentryIdle
    /\ storage = StorageIdle
    /\ \E dsn \in BOOLEAN, dbEnv \in BOOLEAN, up \in BOOLEAN, free \in BOOLEAN,
          mode \in {"dev", "testing", "production"}, lp \in {"", "8080"} :
          server = [ServerIdle EXCEPT !.hasSentryDsn = dsn, !.hasDbEnv = dbEnv,
                                      !.dbUp = up, !.portFree = free,
                                      !.mode = mode, !.listenPort = lp]

Parked == UNCHANGED <<tokens, sentry, storage>>

\* the module is loaded: static database = new Database() validates its
\* environment and throws when a variable is missing
LoadApp ==
    /\ server.pc = "load"
    /\ server' = IF server.hasDbEnv
                 THEN [server EXCEPT !.pc = "construct", !.host = getConfig(server.mode)]
                 ELSE [server EXCEPT !.pc = "exited",
                                     !.failed = "Falta la variable de entorno"]
    /\ Parked

\* createServer: new App() throws without SENTRY_DSN
ConstructApp ==
    /\ server.pc = "construct"
    /\ server' = IF server.hasSentryDsn
                 THEN [server EXCEPT !.pc = "initialize"]
                 ELSE [server EXCEPT !.pc = "exited",
                                     !.failed = "Falta la variable de entorno SENTRY_DSN"]
    /\ Parked

\* initialize: initSentry, securityProtocol (the http server object is
\* created here), config
InitializeSync ==
    /\ server.pc = "initialize"
    /\ server' = [server EXCEPT !.pc = "initDatabase"]
    /\ Parked

\* initialize: await this.initDatabase()
InitDatabase ==
    /\ server.pc = "initDatabase"
    /\ LET r == initDatabase(server.dbUp)
       IN  server' = IF r.threw
                     THEN [server EXCEPT !.pc = "exited", !.auth = r.auth,
                                         !.failed = "initDatabase rejected"]
                     ELSE [server EXCEPT !.pc = "registerRoutes", !.auth = r.auth,
                                         !.logged = @ \o r.logged,
                                         !.captured = @ \o r.captured]
    /\ Parked

\* initialize: registerRoutes and the Sentry error handler; createServer
\* returns the server
RegisterRoutes ==
    /\ server.pc = "registerRoutes"
    /\ server' = [server EXCEPT !.pc = "listen"]
    /\ Parked

\* start: server.listen(PORT); a busy port raises 'error', which is reported
\* and ends the process
Listen ==
    /\ server.pc = "listen"
    /\ server' = IF server.portFree
                 THEN [server EXCEPT !.pc = "listening", !.listening = TRUE,
                                     !.port = ListenPort(server.listenPort)]
                 ELSE [server EXCEPT !.pc = "exited", !.failed = "EADDRINUSE",
                                     !.port = ListenPort(server.listenPort),
                                     !.captured = Append(@, "EADDRINUSE")]
    /\ Parked

\* the database goes down or comes back while the process runs
DatabaseFlips ==
    /\ server.pc \notin {"exited"}
    /\ server' = [server EXCEPT !.dbUp = ~@]
    /\ Parked

NextServer ==
    \/ LoadApp \/ ConstructApp \/ InitializeSync \/ InitDatabase \/ RegisterRoutes
    \/ Listen \/ DatabaseFlips

SpecServer == InitServer /\ [][NextServer]_vars

\* C21: the server never starts listening unless database authentication
\* succeeded, and a failed database connection makes initialization fail:
\* after it, start-up goes no further.
C21_ListenOnlyAfterDatabase ==
    /\ server.listening => server.auth = "ok"
    /\ server.auth = "failed" => server.pc = "exited"

\* the outcome the request in hand has in a process of its own: same header,
\* same clock, same configuration, nothing handled before it
AloneVerify == validateJWT(resp.req, env, LoadPublicKey(env, files).data, now)

\* the outcomes the createToken call in hand can have in a process of its own
AloneIssue ==
    {createToken(issue.data, issue.type_token, issue.expiresIn, issue.algorithm,
                 env, files, now, iv) : iv \in IvValues}

C28_SameAsAlone ==
    /\ Handling("v2") => resp.out = AloneVerify
    /\ Issuing("v2") => issue.out \in AloneIssue

\* a step that starts or ends a call leaves the configuration, the key files
\* and the loaded public key as they were
C28_NoSharedWrites ==
    (issue' # issue \/ resp' # resp) => UNCHANGED <<env, files, publicKey>>

=============================================================================
